---- MODULE Spec2Model ----
(***************************************************************************)
(* Model of jarvis/core/task_queue.py: the priority task queue with its    *)
(* dispatcher thread, the thread-pool workers running _execute_task, the   *)
(* retry threads and the timeout monitor thread.                           *)
(*                                                                         *)
(* Every block the code runs under self.lock is one atomic action; code    *)
(* that runs outside the lock (task.future = future, the success callback, *)
(* the retry thread's re-enqueue, the monitor between its scan and its     *)
(* per-task handling) is a separate step so that other threads interleave. *)
(*                                                                         *)
(* time.time() is a read that returns any value from the last one returned *)
(* up to MaxTime.  Task.completed_at and stats['average_execution_time']   *)
(* are written but never read by the queue and are left out.  A task id is *)
(* the ordinal of its submit_task call.  start() is explored once the      *)
(* threads of the previous run have left their loops.                      *)
(***************************************************************************)
EXTENDS Integers, Sequences, FiniteSets, Bags, TLC

\* ---------------------------------------------------------------- bounds
MaxTasks == 2          \* number of submit_task calls explored
MaxTime == 2           \* time.time() returns values in 1..MaxTime
MaxRetry == 2          \* max_retries arguments are 0 and MaxRetry
max_workers == 1       \* TaskQueue(max_workers=...)
MaxComponents == 4     \* components whose statuses get_system_health aggregates
MaxRegistered == 1     \* component names the callers of the registry use
MaxReports == 6        \* error-carrying health reports explored
MaxRecoveries == 2     \* recovery triggers explored per component
MaxInitCount == 5      \* initialize calls explored without a success between
MaxRecoveryCount == 4  \* _attempt_recovery calls explored without a success between
MaxRetryTasks == 1     \* scheduled initialization retries waiting at a time
MaxRecoveryCalls == 4  \* _attempt_recovery calls counted in the statistics
MaxCameraIndex == 3    \* camera indices 0..MaxCameraIndex exist to be probed
MaxResolutions == 2    \* entries of fallback_resolutions probed
MaxFps == 1            \* entries of fallback_fps probed
MaxReporters == 2      \* threads reporting an error for one component at a time
MaxLockWorkers == 2    \* pool threads whose task failed with an error callback to call
MaxPriorityTasks == 3  \* submit_task calls explored in SpecPriority
MaxFinished == 101     \* tasks explored that end completed, and that end failed (SpecHistory)

\* TaskPriority values used by the callers explored (HIGH, NORMAL)
Priorities == {1, 2}
\* timeout arguments explored, in clock units: a task started at clock value s
\* is timed out at the first sweep that reads a clock value above s + timeout
Timeouts == {0}
\* values a payload may return
Values == {"a"}

\* keep last 100 finished tasks
HistoryLimit == 100

TaskIds == 1..MaxTasks
\* the tasks of SpecPriority: one to keep the worker busy, one waiting, one new
PriorityIds == 1..MaxPriorityTasks
\* attempts is capped in the dispatcher's guard; the code never reaches the cap
MaxAttempts == MaxRetry + 2
Attempts == 1..MaxAttempts

None == "None"

VARIABLES
    task,             \* Task objects by id: policy and runtime fields
    next_id,          \* the next fresh id uuid4 will hand out
    task_queue,       \* self.task_queue: the tasks in the PriorityQueue
    active_tasks,     \* self.active_tasks: ids in dict insertion order
    completed_tasks,  \* self.completed_tasks
    failed_tasks,     \* self.failed_tasks
    stats,            \* self.stats counters
    running,          \* self.running
    shutdown_event,   \* self.shutdown_event.is_set()
    fut,              \* the Future of each (task, attempt) handed to the executor
    workq,            \* the executor's FIFO of work items not yet taken by a worker
    dispatcher,       \* the dispatcher thread: pc and the future it is assigning
    monitor,          \* the monitor thread: pc and its timed_out_tasks list
    retry,            \* retry[t]: a _schedule_retry thread for t is sleeping
    now,              \* the latest value time.time() returned
    obs,              \* history of each task's payload invocations and callbacks
    cancel_log,       \* the tasks cancel_task has marked CANCELLED (SpecCancelLog)
    \* ReliabilityManager (reliability_manager.py)
    components,            \* self.components: the ComponentHealth record of each name
    component_names,       \* the keys of self.components in insertion order
    recovery_callbacks,    \* the keys of self.recovery_callbacks
    global_error_count,    \* self.global_error_count
    rm_running,            \* ReliabilityManager.running
    rm_caller,             \* the thread calling the manager's methods
    rm_monitor,            \* the JARVIS-Reliability thread
    overall_status,        \* the last 'overall_status' get_system_health returned
    \* RobustAudioManager / RobustCameraManager (audio_manager.py, camera_manager.py)
    kind,                     \* which of the two managers this is
    cv2,                      \* the cv2 module was imported (camera; TRUE for audio)
    state,                    \* self.state
    dev_running,              \* self.running
    device,                   \* self.stream / self.camera is an open device
    pyaudio_instance,         \* self.pyaudio_instance is not None (audio)
    initialization_attempts,  \* self.initialization_attempts
    recovery_attempts,        \* self.recovery_attempts
    recovery_count,           \* self.stats['recovery_count']
    in_cooldown,              \* less than error_cooldown since self.last_error_time
    init_retry_tasks,         \* the bag of _delayed_retry_init tasks submitted and not yet run
    thread,                   \* where each thread is inside the manager's methods
    \* the camera hardware and the configuration initialize finds (camera_manager.py)
    index_readable,           \* indices at which a camera opens and delivers a frame
    settings_work,            \* <<index, resolution, fps>> whose test read has the requested shape
    capture_works,            \* indices at which five frames in a row can be read
    config,                   \* self.config: camera_index, width, height, fps
    init_result,              \* what the probing of initialize came to
    \* RobustJARVISSystem._check_system_health (jarvis_robust.py)
    reported_status,          \* the status of its last health report for the manager
    \* threads inside report_component_health (reliability_manager.py)
    reporter,                 \* where each reporting thread is, and the count it read
    \* TaskQueue.lock and RobustAudioManager.lock (task_queue.py, audio_manager.py)
    lock_owner,               \* the thread that holds each of the two locks
    lock_pc                   \* where each thread that takes both locks is

queue_vars == <<task, next_id, task_queue, active_tasks, completed_tasks, failed_tasks,
                stats, running, shutdown_event, fut, workq, dispatcher, monitor, retry,
                now, obs, cancel_log>>

rm_vars == <<components, component_names, recovery_callbacks, global_error_count,
             rm_running, rm_caller, rm_monitor, overall_status>>

dev_vars == <<kind, cv2, state, dev_running, device, pyaudio_instance,
              initialization_attempts, recovery_attempts, recovery_count,
              in_cooldown, init_retry_tasks, thread>>

lock_vars == <<lock_owner, lock_pc>>

probe_vars == <<index_readable, settings_work, capture_works, config, init_result>>

\* what the task queue's methods leave alone
outside_queue == <<rm_vars, dev_vars, probe_vars, reported_status, reporter, lock_vars>>

\* what the reliability manager's methods leave alone
outside_rm == <<queue_vars, dev_vars, probe_vars, reported_status, reporter, lock_vars>>

\* what the lifecycle methods of the resource managers leave alone
outside_dev == <<queue_vars, rm_vars, probe_vars, reported_status, reporter, lock_vars>>

vars == <<queue_vars, rm_vars, dev_vars, probe_vars, reported_status, reporter, lock_vars>>

\* ---------------------------------------------------------------- helpers
Submitted == 1..(next_id - 1)

\* s without the element x (del d[x] / list filtering)
Remove(s, x) == SelectSeq(s, LAMBDA y: y # x)

InSeq(s, x) == \E i \in 1..Len(s): s[i] = x

\* self.active_tasks[task.id] = task: an existing key keeps its position
DictSet(s, x) == IF InSeq(s, x) THEN s ELSE Append(s, x)

\* lst[-n:]
LastN(s, n) == IF Len(s) > n THEN SubSeq(s, Len(s) - n + 1, Len(s)) ELSE s

\* Task.__lt__ without the creation-time tie-break
Task__lt__PriorityOnly(a, b) == a.priority < b.priority

\* Task.__lt__
Task__lt__(a, b) ==
    IF a.priority # b.priority
    THEN a.priority < b.priority
    ELSE a.created_at < b.created_at

\* queue.PriorityQueue.get: an item no other item of the heap is smaller than
QueueHeads == {t \in task_queue: \A u \in task_queue: ~Task__lt__(task[u], task[t])}

\* Future.done()
FutureDone(t, k) == fut[t][k] \in {"cancelled", "finished"}

\* Future.cancel(): only a future no worker has taken yet is cancelled
FutureCancel(f, t, k) ==
    IF k # 0 /\ f[t][k] = "pending"
    THEN [f EXCEPT ![t][k] = "cancelled"]
    ELSE f

\* threads of the pool that are inside _execute_task
Busy == Cardinality({tk \in (DOMAIN fut) \X Attempts:
                       fut[tk[1]][tk[2]] \in {"running", "post_ok", "post_err"}})

\* time.time(): a value not before the one it returned last
TimeValues == now..MaxTime

NewTask(p, mr, to, created) ==
    [status |-> "pending", attempts |-> 0, priority |-> p, created_at |-> created,
     started_at |-> 0, max_retries |-> mr, timeout |-> to, result |-> None,
     error |-> None, future |-> 0]

NoTask ==
    [status |-> "none", attempts |-> 0, priority |-> 0, created_at |-> 0,
     started_at |-> 0, max_retries |-> 0, timeout |-> 0, result |-> None,
     error |-> None, future |-> 0]

\* what has happened to a task so far: payload invocations started, payload
\* invocations that raised, the value the payload returned, whether the monitor
\* timed it out, callbacks invoked; outranked is kept by SpecPriority only: the
\* tasks of lower priority that had not started when this one was submitted
\* with every worker busy
NoObs == [execs |-> 0, raised |-> 0, retval |-> None, timedout |-> FALSE,
          cb |-> 0, errcb |-> 0, outranked |-> {}]

\* ------------------------------------------------- reliability manager: data
\* self.max_error_count
max_error_count == 5

\* component names: get_system_health is explored over 1..MaxComponents, the
\* registry's methods are called with the names 1..MaxRegistered
Names == 1..MaxComponents
CallerNames == 1..MaxRegistered

\* HealthStatus
HealthStatuses == {"healthy", "warning", "critical", "failed", "recovering"}

\* error arguments of report_component_health, str(error) and context
\* arguments of report_error
ErrorArgs == {None, "", "e"}
ExceptionTexts == {"", "e"}
Contexts == {"", "ctx"}

\* what a recovery callback does: return True, return False, raise
RecoveryOutcomes == {"true", "false", "raise"}

\* time.time() - component.last_check as the monitor sees it: 0 is at most
\* recovery_cooldown (30 s), 1 is above it and at most 60 s, 2 is above 60 s
Elapsed == {0, 1, 2}

\* ComponentHealth as register_component creates it.  uptime and metrics are
\* written by the registry and read only into the health report, and are left
\* out; last_check is kept as the time elapsed since it.
NewComponent ==
    [status |-> "healthy", error_count |-> 0, last_error |-> None,
     recovery_attempts |-> 0, since_check |-> 0]

\* a name that is not a key of self.components
NoComponent ==
    [status |-> "none", error_count |-> 0, last_error |-> None,
     recovery_attempts |-> 0, since_check |-> 0]

\* ------------------------------------------------- resource managers: data
\* self.max_init_attempts, self.max_recovery_attempts
max_init_attempts == 5
max_recovery_attempts == 3

\* TaskPriority.HIGH
HIGH == 1

Kinds == {"audio", "camera"}

\* AudioState / CameraState
States == {"stopped", "initializing", "ready", "listening", "capturing", "error",
           "recovering", "disabled"}

DevThreads == {"caller", "background", "capture"}

\* the threads that call report_component_health at the same time
Reporters == 1..MaxReporters

\* the component they report for
ReportedName == 1

\* the thread calling start_listening
Starter == 0

\* the pool threads running _execute_task for a voice-command task
LockWorkers == 1..MaxLockWorkers

\* the owner of a lock no thread holds
NoOwner == -1

\* ------------------------------------------------- camera probing: data
\* CameraConfig.fallback_indices, -1 for any available camera
fallback_indices == <<0, 1, 2, -1>>

\* CameraConfig.fallback_resolutions, as far as probed
fallback_resolutions ==
    SubSeq(<< <<640, 480>>, <<1280, 720>>, <<320, 240>>, <<800, 600>> >>, 1, MaxResolutions)

\* CameraConfig.fallback_fps, as far as probed
fallback_fps == SubSeq(<<30, 15, 10, 5>>, 1, MaxFps)

\* the indices 'for i in range(10)' tries
CameraIndices == 0..MaxCameraIndex

\* what cv2.VideoCapture can be asked to open
OpenArgs == CameraIndices \cup {-1}

SeqRange(q) == {q[i] : i \in 1..Len(q)}

\* CameraConfig()
DefaultConfig == [camera_index |-> 0, width |-> 640, height |-> 480, fps |-> 30]

\* ---------------------------------------------------------------- Init
\* TaskQueue.__init__, for the task ids ids
TaskQueue__init__(ids) ==
    /\ task = [t \in ids |-> NoTask]
    /\ next_id = 1
    /\ task_queue = {}
    /\ active_tasks = <<>>
    /\ completed_tasks = <<>>
    /\ failed_tasks = <<>>
    /\ stats = [total_tasks |-> 0, completed_tasks |-> 0, failed_tasks |-> 0,
                retried_tasks |-> 0]
    /\ running = FALSE
    /\ shutdown_event = FALSE
    /\ fut = [t \in ids |-> [k \in Attempts |-> "none"]]
    /\ workq = <<>>
    /\ dispatcher = [pc |-> "none", t |-> 0, k |-> 0]
    /\ monitor = [pc |-> "none", timed_out |-> <<>>]
    /\ retry = [t \in ids |-> FALSE]
    /\ now = 1
    /\ obs = [t \in ids |-> NoObs]
    /\ cancel_log = {}

QueueInit == TaskQueue__init__(TaskIds)

\* ReliabilityManager.__init__
RmInit ==
    /\ components = [c \in Names |-> NoComponent]
    /\ component_names = <<>>
    /\ recovery_callbacks = {}
    /\ global_error_count = 0
    /\ rm_running = FALSE
    /\ rm_caller = [pc |-> "idle", name |-> 0]
    /\ rm_monitor = [pc |-> "none", i |-> 0, n |-> 0, detached |-> FALSE]
    /\ overall_status = None

\* RobustAudioManager.__init__ / RobustCameraManager.__init__
DevInit(k, imported) ==
    /\ kind = k
    /\ cv2 = imported
    /\ state = IF imported THEN "stopped" ELSE "disabled"
    /\ dev_running = FALSE
    /\ device = FALSE
    /\ pyaudio_instance = FALSE
    /\ initialization_attempts = 0
    /\ recovery_attempts = 0
    /\ recovery_count = 0
    /\ in_cooldown = FALSE
    /\ init_retry_tasks = EmptyBag
    /\ thread = [th \in DevThreads |-> [pc |-> "idle", ctx |-> "none"]]

\* a camera manager before initialize, on hardware where nothing works
ProbeInit ==
    /\ index_readable = {}
    /\ settings_work = {}
    /\ capture_works = {}
    /\ config = DefaultConfig
    /\ init_result = None

\* no health report made yet, no thread inside report_component_health
ReportsInit ==
    /\ reported_status = None
    /\ reporter = [th \in Reporters |-> [pc |-> "idle", loaded |-> 0]]

\* both locks free, no thread inside the blocks that take them
LocksInit ==
    /\ lock_owner = [queue |-> NoOwner, audio |-> NoOwner]
    /\ lock_pc = [th \in {Starter} \cup LockWorkers |-> "idle"]

Init == QueueInit /\ RmInit /\ DevInit("audio", TRUE) /\ ProbeInit /\ ReportsInit /\ LocksInit

\* ---------------------------------------------------------------- API
\* TaskQueue.start
Start ==
    /\ ~running
    /\ dispatcher.pc = "none"
    /\ monitor.pc = "none"
    /\ running' = TRUE
    /\ shutdown_event' = FALSE
    /\ dispatcher' = [dispatcher EXCEPT !.pc = "loop"]
    /\ monitor' = [monitor EXCEPT !.pc = "loop"]
    /\ UNCHANGED <<outside_queue, cancel_log, task, next_id, task_queue, active_tasks, completed_tasks,
                   failed_tasks, stats, fut, workq, retry, now, obs>>

\* TaskQueue.stop: the flags it sets.  The joins change no state, and
\* executor.shutdown(wait=True, timeout=timeout) is rejected for its unknown
\* keyword before it does anything, so the pool keeps running its work items.
Stop ==
    /\ running
    /\ running' = FALSE
    /\ shutdown_event' = TRUE
    /\ UNCHANGED <<outside_queue, cancel_log, task, next_id, task_queue, active_tasks, completed_tasks,
                   failed_tasks, stats, fut, workq, dispatcher, monitor, retry,
                   now, obs>>

\* the parameters of ThreadPoolExecutor.shutdown(self, wait=True, *,
\* cancel_futures=False)
shutdown_parameters == {"wait", "cancel_futures"}

\* the keywords of stop's call self.executor.shutdown(wait=True, timeout=timeout)
stop_shutdown_keywords == {"wait", "timeout"}

\* TaskQueue.stop on a running queue ends in the TypeError of a call with an
\* unexpected keyword argument
StopRaises == ~(stop_shutdown_keywords \subseteq shutdown_parameters)

\* RobustJARVISSystem._restart_task_queue, the recovery callback of the
\* component 'task_queue': stop(), a sleep, start(), return True; an exception
\* of stop() skips start() and makes it return False.  stop() returns at once
\* on a queue that is not running.
RestartTaskQueue ==
    IF running
    THEN IF StopRaises
         THEN Stop
         ELSE /\ running' = TRUE
              /\ shutdown_event' = FALSE
              /\ dispatcher' = [pc |-> "loop", t |-> 0, k |-> 0]
              /\ monitor' = [pc |-> "loop", timed_out |-> <<>>]
              /\ UNCHANGED <<outside_queue, cancel_log, task, next_id, task_queue, active_tasks,
                             completed_tasks, failed_tasks, stats, fut, workq, retry, now, obs>>
    ELSE Start

\* TaskQueue.submit_task
submit_task(p, mr, to) ==
    /\ \E n \in TimeValues:
        /\ now' = n
        /\ task' = [task EXCEPT ![next_id] = NewTask(p, mr, to, n)]
    /\ task_queue' = task_queue \cup {next_id}
    /\ stats' = [stats EXCEPT !.total_tasks = @ + 1]
    /\ next_id' = next_id + 1
    /\ UNCHANGED <<outside_queue, cancel_log, active_tasks, completed_tasks, failed_tasks, running,
                   shutdown_event, fut, workq, dispatcher, monitor, retry>>

SubmitTask(p, mr, to) ==
    /\ next_id <= MaxTasks
    /\ submit_task(p, mr, to)
    /\ UNCHANGED obs

\* the tasks that have not started and that a new task of priority p outranks
\* while every worker is busy
Outranked(p) ==
    IF Busy = max_workers
    THEN {l \in Submitted: obs[l].execs = 0 /\ p < task[l].priority}
    ELSE {}

\* the same call, with the tasks the new one outranks kept in obs
SubmitTaskObserved(p, mr, to) ==
    /\ next_id <= MaxPriorityTasks
    /\ submit_task(p, mr, to)
    /\ obs' = [obs EXCEPT ![next_id].outranked = Outranked(p)]

\* TaskQueue.get_task_status
get_task_status(t) ==
    IF InSeq(active_tasks, t) THEN task[t].status
    ELSE IF InSeq(completed_tasks, t) THEN task[t].status
    ELSE IF InSeq(failed_tasks, t) THEN task[t].status
    ELSE None

\* TaskQueue.get_task_result
get_task_result(t) ==
    IF InSeq(completed_tasks, t) THEN task[t].result
    ELSE IF InSeq(active_tasks, t) /\ task[t].status = "completed" THEN task[t].result
    ELSE None

\* the value cancel_task returns
cancel_task_result(t) ==
    /\ InSeq(active_tasks, t)
    /\ task[t].future # 0
    /\ ~FutureDone(t, task[t].future)

\* TaskQueue.cancel_task, the call that returns True
cancel_task(t) ==
    /\ t \in Submitted
    /\ cancel_task_result(t)
    /\ fut' = FutureCancel(fut, t, task[t].future)
    /\ task' = [task EXCEPT ![t].status = "cancelled"]
    /\ UNCHANGED <<outside_queue, next_id, task_queue, active_tasks, completed_tasks, failed_tasks,
                   stats, running, shutdown_event, workq, dispatcher, monitor,
                   retry, now, obs>>

CancelTask(t) == cancel_task(t) /\ UNCHANGED cancel_log

\* the same call, with the task it marked kept in cancel_log
CancelTaskLogged(t) == cancel_task(t) /\ cancel_log' = cancel_log \cup {t}

\* ---------------------------------------------------------------- dispatcher
LoopCondition == running /\ ~shutdown_event

\* _dispatch_tasks: while self.running and not self.shutdown_event.is_set()
DispatcherCheck ==
    /\ dispatcher.pc = "loop"
    /\ dispatcher' = [dispatcher EXCEPT !.pc = IF LoopCondition THEN "get" ELSE "none"]
    /\ UNCHANGED <<outside_queue, cancel_log, task, next_id, task_queue, active_tasks, completed_tasks,
                   failed_tasks, stats, running, shutdown_event, fut, workq, monitor,
                   retry, now, obs>>

\* _dispatch_tasks: task_queue.get raised queue.Empty after its timeout
DispatcherEmpty ==
    /\ dispatcher.pc = "get"
    /\ task_queue = {}
    /\ dispatcher' = [dispatcher EXCEPT !.pc = "loop"]
    /\ UNCHANGED <<outside_queue, cancel_log, task, next_id, task_queue, active_tasks, completed_tasks,
                   failed_tasks, stats, running, shutdown_event, fut, workq, monitor,
                   retry, now, obs>>

\* _dispatch_tasks: task_queue.get, the locked block and executor.submit
DispatcherGet ==
    /\ dispatcher.pc = "get"
    /\ \E t \in QueueHeads, n \in TimeValues:
        LET k == task[t].attempts + 1 IN
        /\ k <= MaxAttempts
        /\ task_queue' = task_queue \ {t}
        /\ now' = n
        /\ task' = [task EXCEPT ![t].status = "running",
                                ![t].started_at = n,
                                ![t].attempts = k]
        /\ active_tasks' = DictSet(active_tasks, t)
        /\ fut' = [fut EXCEPT ![t][k] = "pending"]
        /\ workq' = Append(workq, <<t, k>>)
        /\ dispatcher' = [pc |-> "assign", t |-> t, k |-> k]
    /\ UNCHANGED <<outside_queue, cancel_log, next_id, completed_tasks, failed_tasks, stats, running,
                   shutdown_event, monitor, retry, obs>>

\* _dispatch_tasks: task.future = future
DispatcherAssign ==
    /\ dispatcher.pc = "assign"
    /\ task' = [task EXCEPT ![dispatcher.t].future = dispatcher.k]
    /\ dispatcher' = [pc |-> "loop", t |-> 0, k |-> 0]
    /\ UNCHANGED <<outside_queue, cancel_log, next_id, task_queue, active_tasks, completed_tasks, failed_tasks,
                   stats, running, shutdown_event, fut, workq, monitor, retry, now,
                   obs>>

\* ---------------------------------------------------------------- workers
\* a free pool thread takes the oldest work item; a cancelled future is dropped,
\* any other starts _execute_task and calls the payload
WorkerTake ==
    /\ workq # <<>>
    /\ Busy < max_workers
    /\ LET t == Head(workq)[1]
           k == Head(workq)[2] IN
        IF fut[t][k] = "cancelled"
        THEN UNCHANGED <<fut, obs>>
        ELSE /\ fut' = [fut EXCEPT ![t][k] = "running"]
             /\ obs' = [obs EXCEPT ![t].execs = @ + 1]
    /\ workq' = Tail(workq)
    /\ UNCHANGED <<outside_queue, cancel_log, task, next_id, task_queue, active_tasks, completed_tasks,
                   failed_tasks, stats, running, shutdown_event, dispatcher, monitor,
                   retry, now>>

\* _execute_task: the payload returned v; the locked block of the success path
PayloadReturn(t, k, v) ==
    /\ fut[t][k] = "running"
    /\ task' = [task EXCEPT ![t].status = "completed", ![t].result = v]
    /\ active_tasks' = Remove(active_tasks, t)
    /\ completed_tasks' = Append(completed_tasks, t)
    /\ stats' = [stats EXCEPT !.completed_tasks = @ + 1]
    /\ fut' = [fut EXCEPT ![t][k] = "post_ok"]
    /\ obs' = [obs EXCEPT ![t].retval = v]
    /\ UNCHANGED <<outside_queue, cancel_log, next_id, task_queue, failed_tasks, running, shutdown_event, workq,
                   dispatcher, monitor, retry, now>>

\* the retry test letting one attempt too many through
ShouldRetryOffByTwo(attempts, max_retries) == attempts < max_retries + 2

\* _execute_task: if task.attempts < task.max_retries
ShouldRetry(attempts, max_retries) == attempts < max_retries

\* _execute_task: the payload raised; the locked block of the except path
PayloadRaise(t, k) ==
    /\ fut[t][k] = "running"
    /\ IF ShouldRetry(task[t].attempts, task[t].max_retries)
       THEN /\ task' = [task EXCEPT ![t].error = "Exception", ![t].status = "retrying"]
            /\ stats' = [stats EXCEPT !.retried_tasks = @ + 1]
            /\ retry' = [retry EXCEPT ![t] = TRUE]
            /\ obs' = [obs EXCEPT ![t].raised = @ + 1]
            /\ UNCHANGED failed_tasks
       ELSE /\ task' = [task EXCEPT ![t].error = "Exception", ![t].status = "failed"]
            /\ failed_tasks' = Append(failed_tasks, t)
            /\ stats' = [stats EXCEPT !.failed_tasks = @ + 1]
            /\ obs' = [obs EXCEPT ![t].raised = @ + 1, ![t].errcb = @ + 1]
            /\ UNCHANGED retry
    /\ active_tasks' = Remove(active_tasks, t)
    /\ fut' = [fut EXCEPT ![t][k] = "post_err"]
    /\ UNCHANGED <<outside_queue, cancel_log, next_id, task_queue, completed_tasks, running, shutdown_event,
                   workq, dispatcher, monitor, now>>

\* a worker that gives its slot back only when the payload returned
WorkerReturnNotAfterRaise(t, k) ==
    /\ fut[t][k] = "post_ok"
    /\ obs' = [obs EXCEPT ![t].cb = @ + 1]
    /\ fut' = [fut EXCEPT ![t][k] = "finished"]
    /\ UNCHANGED <<outside_queue, cancel_log, task, next_id, task_queue, active_tasks, completed_tasks,
                   failed_tasks, stats, running, shutdown_event, workq, dispatcher,
                   monitor, retry, now>>

\* _execute_task: the success callback outside the lock, then return / raise e
WorkerReturn(t, k) ==
    /\ fut[t][k] \in {"post_ok", "post_err"}
    /\ obs' = IF fut[t][k] = "post_ok" THEN [obs EXCEPT ![t].cb = @ + 1] ELSE obs
    /\ fut' = [fut EXCEPT ![t][k] = "finished"]
    /\ UNCHANGED <<outside_queue, cancel_log, task, next_id, task_queue, active_tasks, completed_tasks,
                   failed_tasks, stats, running, shutdown_event, workq, dispatcher,
                   monitor, retry, now>>

\* ---------------------------------------------------------------- retry thread
\* _schedule_retry after its sleep
RetryWake(t) ==
    /\ retry[t]
    /\ retry' = [retry EXCEPT ![t] = FALSE]
    /\ IF running
       THEN /\ task' = [task EXCEPT ![t].status = "pending"]
            /\ task_queue' = task_queue \cup {t}
       ELSE UNCHANGED <<task, task_queue>>
    /\ UNCHANGED <<outside_queue, cancel_log, next_id, active_tasks, completed_tasks, failed_tasks, stats,
                   running, shutdown_event, fut, workq, dispatcher, monitor, now, obs>>

\* ---------------------------------------------------------------- monitor
\* _monitor_tasks: task.started_at and current_time - task.started_at > task.timeout
TimedOut(t, current_time) ==
    task[t].started_at # 0 /\ current_time - task[t].started_at > task[t].timeout

\* _monitor_tasks: the loop condition and the locked scan of active_tasks
MonitorScan ==
    /\ monitor.pc = "loop"
    /\ IF LoopCondition
       THEN \E n \in TimeValues:
            /\ now' = n
            /\ monitor' = [pc |-> "handle",
                           timed_out |-> SelectSeq(active_tasks,
                                                   LAMBDA t: TimedOut(t, n))]
       ELSE /\ monitor' = [pc |-> "none", timed_out |-> <<>>]
            /\ now' = now
    /\ UNCHANGED <<outside_queue, cancel_log, task, next_id, task_queue, active_tasks, completed_tasks,
                   failed_tasks, stats, running, shutdown_event, fut, workq,
                   dispatcher, retry, obs>>

\* _monitor_tasks: one iteration of "for task in timed_out_tasks"
MonitorHandle ==
    /\ monitor.pc = "handle"
    /\ monitor.timed_out # <<>>
    /\ LET t == Head(monitor.timed_out) IN
        /\ fut' = FutureCancel(fut, t, task[t].future)
        /\ task' = [task EXCEPT ![t].status = "failed", ![t].error = "TimeoutError"]
        /\ active_tasks' = Remove(active_tasks, t)
        /\ failed_tasks' = Append(failed_tasks, t)
        /\ stats' = [stats EXCEPT !.failed_tasks = @ + 1]
        /\ obs' = [obs EXCEPT ![t].timedout = TRUE]
    /\ monitor' = [monitor EXCEPT !.timed_out = Tail(@)]
    /\ UNCHANGED <<outside_queue, cancel_log, next_id, task_queue, completed_tasks, running, shutdown_event,
                   workq, dispatcher, retry, now>>

\* _monitor_tasks: the history cleanup and the sleep that ends an iteration
MonitorCleanup ==
    /\ monitor.pc = "handle"
    /\ monitor.timed_out = <<>>
    /\ completed_tasks' = LastN(completed_tasks, HistoryLimit)
    /\ failed_tasks' = LastN(failed_tasks, HistoryLimit)
    /\ monitor' = [monitor EXCEPT !.pc = "loop"]
    /\ UNCHANGED <<outside_queue, cancel_log, task, next_id, task_queue, active_tasks, stats, running,
                   shutdown_event, fut, workq, dispatcher, retry, now, obs>>

\* ---------------------------------------------------------------- history
\* _execute_task, the history part of the success path: the task is appended
\* to completed_tasks and counted.  The entry is the ordinal of the completion;
\* the rest of the task is left out so that more than HistoryLimit tasks can
\* finish.  Tasks are dispatched, and so finish, once the queue was started.
HistoryCompleted ==
    /\ running
    /\ stats.completed_tasks < MaxFinished
    /\ completed_tasks' = Append(completed_tasks, stats.completed_tasks + 1)
    /\ stats' = [stats EXCEPT !.completed_tasks = @ + 1]
    /\ UNCHANGED <<outside_queue, cancel_log, task, next_id, task_queue, active_tasks, failed_tasks,
                   running, shutdown_event, fut, workq, dispatcher, monitor, retry, now, obs>>

\* _execute_task / _monitor_tasks, the history part of a failure: the task is
\* appended to failed_tasks and counted
HistoryFailed ==
    /\ running
    /\ stats.failed_tasks < MaxFinished
    /\ failed_tasks' = Append(failed_tasks, stats.failed_tasks + 1)
    /\ stats' = [stats EXCEPT !.failed_tasks = @ + 1]
    /\ UNCHANGED <<outside_queue, cancel_log, task, next_id, task_queue, active_tasks, completed_tasks,
                   running, shutdown_event, fut, workq, dispatcher, monitor, retry, now, obs>>

\* ------------------------------------------------- reliability manager
\* if error: / if success: / if context: the truth value of a string or None
Truthy(x) == x # None /\ x # ""

\* report_error: f"{context}: {str(error)}" if context else str(error)
error_msg(context, text) == IF Truthy(context) THEN context \o ": " \o text ELSE text

\* a majority test that also accepts exactly half
AtLeastHalf(count, total) == 2 * count >= total

\* _calculate_overall_health: warning_count > len(statuses) / 2
MoreThanHalf(count, total) == 2 * count > total

\* _calculate_overall_health
calculate_overall_health ==
    LET statuses == [i \in 1..Len(component_names) |->
                        components[component_names[i]].status]
        warning_count == Cardinality({i \in 1..Len(statuses): statuses[i] = "warning"})
    IN  IF Len(component_names) = 0 THEN "healthy"
        ELSE IF InSeq(statuses, "failed") THEN "critical"
        ELSE IF InSeq(statuses, "critical") THEN "critical"
        ELSE IF InSeq(statuses, "recovering") THEN "warning"
        ELSE IF MoreThanHalf(warning_count, Len(statuses)) THEN "warning"
        ELSE "healthy"

\* get_system_health: the 'overall_status' entry of the report
GetSystemHealth ==
    /\ rm_caller.pc = "idle"
    /\ overall_status' = calculate_overall_health
    /\ UNCHANGED <<outside_rm, components, component_names, recovery_callbacks,
                   global_error_count, rm_running, rm_caller, rm_monitor>>

\* ReliabilityManager.start
RmStart ==
    /\ rm_caller.pc = "idle"
    /\ ~rm_running
    /\ rm_monitor.pc = "none"
    /\ rm_running' = TRUE
    /\ rm_monitor' = [rm_monitor EXCEPT !.pc = "loop"]
    /\ UNCHANGED <<outside_rm, components, component_names, recovery_callbacks,
                   global_error_count, rm_caller, overall_status>>

\* ReliabilityManager.stop
RmStop ==
    /\ rm_caller.pc = "idle"
    /\ rm_running
    /\ rm_running' = FALSE
    /\ UNCHANGED <<outside_rm, components, component_names, recovery_callbacks,
                   global_error_count, rm_caller, rm_monitor, overall_status>>

\* register_component.  The record it stores is a new object: a thread that is
\* inside the recovery callback of this name keeps the record it looked up.
register_component(name, recovery_callback) ==
    /\ rm_caller.pc = "idle"
    /\ components' = [components EXCEPT ![name] = NewComponent]
    /\ component_names' = DictSet(component_names, name)
    /\ recovery_callbacks' = IF recovery_callback
                             THEN recovery_callbacks \cup {name}
                             ELSE recovery_callbacks
    /\ rm_monitor' = IF rm_monitor.pc = "callback" /\ component_names[rm_monitor.i] = name
                     THEN [rm_monitor EXCEPT !.detached = TRUE]
                     ELSE rm_monitor
    /\ UNCHANGED <<outside_rm, global_error_count, rm_running, rm_caller, overall_status>>

\* _trigger_component_recovery up to the call of the recovery callback
TriggerBegin(component) ==
    [component EXCEPT !.recovery_attempts = @ + 1, !.status = "recovering"]

\* _trigger_component_recovery from the return of the recovery callback on;
\* component is the record the trigger looked up before the call
TriggerEnd(component, outcome) ==
    IF outcome = "true"
    THEN [component EXCEPT !.status = "healthy", !.error_count = 0, !.last_error = None]
    ELSE [component EXCEPT !.status = "failed"]

\* report_component_health, up to the call of the recovery callback if it
\* triggers a recovery for a component that has one
report_component_health(name, status, error) ==
    LET registered == InSeq(component_names, name)
        component == IF registered THEN components[name] ELSE NewComponent
        counted == Truthy(error)
        reported == [component EXCEPT
                        !.status = status,
                        !.since_check = 0,
                        !.error_count = IF counted THEN @ + 1 ELSE @,
                        !.last_error = IF counted THEN error ELSE @]
        recover == counted /\ reported.error_count >= max_error_count
    IN  /\ rm_caller.pc = "idle"
        /\ counted => global_error_count < MaxReports
        /\ recover => reported.recovery_attempts < MaxRecoveries
        /\ components' = [components EXCEPT ![name] =
                             IF recover THEN TriggerBegin(reported) ELSE reported]
        /\ component_names' = DictSet(component_names, name)
        /\ global_error_count' = IF counted THEN global_error_count + 1
                                 ELSE global_error_count
        /\ rm_caller' = IF recover /\ name \in recovery_callbacks
                        THEN [pc |-> "callback", name |-> name]
                        ELSE rm_caller
        /\ UNCHANGED <<outside_rm, recovery_callbacks, rm_running, rm_monitor,
                       overall_status>>

\* report_error
report_error(component, text, context) ==
    report_component_health(component, "warning", error_msg(context, text))

\* force_component_recovery for a registered name, up to the call of the
\* recovery callback
force_component_recovery(name) ==
    /\ rm_caller.pc = "idle"
    /\ InSeq(component_names, name)
    /\ components[name].recovery_attempts < MaxRecoveries
    /\ components' = [components EXCEPT ![name] = TriggerBegin(@)]
    /\ rm_caller' = IF name \in recovery_callbacks
                    THEN [pc |-> "callback", name |-> name]
                    ELSE rm_caller
    /\ UNCHANGED <<outside_rm, component_names, recovery_callbacks, global_error_count,
                   rm_running, rm_monitor, overall_status>>

\* the recovery callback called by the caller's thread ends
CallerRecoveryReturns(outcome) ==
    /\ rm_caller.pc = "callback"
    /\ components' = [components EXCEPT ![rm_caller.name] = TriggerEnd(@, outcome)]
    /\ rm_caller' = [pc |-> "idle", name |-> 0]
    /\ UNCHANGED <<outside_rm, component_names, recovery_callbacks, global_error_count,
                   rm_running, rm_monitor, overall_status>>

\* _monitoring_loop: while self.running, and the start of _check_component_health
RmMonitorLoop ==
    /\ rm_monitor.pc = "loop"
    /\ rm_monitor' = IF rm_running
                     THEN [pc |-> "check", i |-> 1, n |-> Len(component_names),
                           detached |-> FALSE]
                     ELSE [pc |-> "none", i |-> 0, n |-> 0, detached |-> FALSE]
    /\ UNCHANGED <<outside_rm, components, component_names, recovery_callbacks,
                   global_error_count, rm_running, rm_caller, overall_status>>

\* _check_component_health: one step of "for name, component in
\* self.components.items()".  A dict that changed size makes the iterator raise,
\* which ends the pass in _monitoring_loop's handler.
RmMonitorCheck ==
    /\ rm_monitor.pc = "check"
    /\ IF Len(component_names) # rm_monitor.n \/ rm_monitor.i > rm_monitor.n
       THEN /\ rm_monitor' = [pc |-> "loop", i |-> 0, n |-> 0, detached |-> FALSE]
            /\ UNCHANGED components
       ELSE LET name == component_names[rm_monitor.i] IN
            \E elapsed \in {e \in Elapsed: e >= components[name].since_check}:
                LET seen == [components[name] EXCEPT !.since_check = elapsed]
                    checked == IF elapsed > 1
                               THEN [seen EXCEPT !.status = "warning"]
                               ELSE seen
                    recover == checked.status \in {"critical", "failed"} /\ elapsed > 0
                IN  /\ recover => checked.recovery_attempts < MaxRecoveries
                    /\ components' = [components EXCEPT ![name] =
                                         IF recover THEN TriggerBegin(checked)
                                         ELSE checked]
                    /\ rm_monitor' = IF recover /\ name \in recovery_callbacks
                                     THEN [rm_monitor EXCEPT !.pc = "callback"]
                                     ELSE [rm_monitor EXCEPT !.i = @ + 1]
    /\ UNCHANGED <<outside_rm, component_names, recovery_callbacks, global_error_count,
                   rm_running, rm_caller, overall_status>>

\* the recovery callback called by the monitor thread ends
MonitorRecoveryReturns(outcome) ==
    /\ rm_monitor.pc = "callback"
    /\ components' = IF rm_monitor.detached
                     THEN components
                     ELSE [components EXCEPT ![component_names[rm_monitor.i]] =
                              TriggerEnd(@, outcome)]
    /\ rm_monitor' = [rm_monitor EXCEPT !.pc = "check", !.i = @ + 1,
                                        !.detached = FALSE]
    /\ UNCHANGED <<outside_rm, component_names, recovery_callbacks, global_error_count,
                   rm_running, rm_caller, overall_status>>

\* ------------------------------------------------- concurrent health reports
\* report_component_health(ReportedName, status, error="e") called by several
\* threads at once.  The method takes no lock and 'x += 1' is a read followed
\* by a write, between which another thread can run.

\* component.status = status; component.last_check = time.time()
ReportStatus(th, status) ==
    /\ reporter[th].pc = "idle"
    /\ components' = [components EXCEPT ![ReportedName].status = status,
                                        ![ReportedName].since_check = 0]
    /\ reporter' = [reporter EXCEPT ![th].pc = "load_count"]
    /\ UNCHANGED <<queue_vars, lock_vars, dev_vars, probe_vars, reported_status, component_names,
                   recovery_callbacks, global_error_count, rm_running, rm_caller,
                   rm_monitor, overall_status>>

\* component.error_count += 1: the read
ReportLoadCount(th) ==
    /\ reporter[th].pc = "load_count"
    /\ reporter' = [reporter EXCEPT ![th] =
                       [pc |-> "store_count", loaded |-> components[ReportedName].error_count]]
    /\ UNCHANGED <<queue_vars, lock_vars, rm_vars, dev_vars, probe_vars, reported_status>>

\* component.error_count += 1: the write; component.last_error = error
ReportStoreCount(th) ==
    /\ reporter[th].pc = "store_count"
    /\ components' = [components EXCEPT ![ReportedName].error_count = reporter[th].loaded + 1,
                                        ![ReportedName].last_error = "e"]
    /\ reporter' = [reporter EXCEPT ![th] = [pc |-> "load_global", loaded |-> 0]]
    /\ UNCHANGED <<queue_vars, lock_vars, dev_vars, probe_vars, reported_status, component_names,
                   recovery_callbacks, global_error_count, rm_running, rm_caller,
                   rm_monitor, overall_status>>

\* self.global_error_count += 1: the read
ReportLoadGlobal(th) ==
    /\ reporter[th].pc = "load_global"
    /\ reporter' = [reporter EXCEPT ![th] =
                       [pc |-> "store_global", loaded |-> global_error_count]]
    /\ UNCHANGED <<queue_vars, lock_vars, rm_vars, dev_vars, probe_vars, reported_status>>

\* self.global_error_count += 1: the write; then the threshold test, which
\* with no recovery callback registered leaves the component RECOVERING
ReportStoreGlobal(th) ==
    /\ reporter[th].pc = "store_global"
    /\ global_error_count' = reporter[th].loaded + 1
    /\ components' = IF components[ReportedName].error_count >= max_error_count
                     THEN [components EXCEPT ![ReportedName] = TriggerBegin(@)]
                     ELSE components
    /\ reporter' = [reporter EXCEPT ![th] = [pc |-> "done", loaded |-> 0]]
    /\ UNCHANGED <<queue_vars, lock_vars, dev_vars, probe_vars, reported_status, component_names,
                   recovery_callbacks, rm_running, rm_caller, rm_monitor, overall_status>>

\* ------------------------------------------------- resource managers
\* One RobustAudioManager or RobustCameraManager (kind) with the threads that
\* call it: the caller of initialize / start / stop, a background thread (a
\* task-queue worker running _delayed_retry_init, or the system monitor or the
\* registry calling _attempt_recovery) and the camera's capture thread.  A
\* block under self.lock is one step; start's recovery of an ERROR state runs
\* inside start's locked block, so the other threads' locked blocks wait for it.
\* The audio loops change nothing of the manager's lifecycle and are left out;
\* a capture thread that is still alive when start_capture creates its
\* successor stands for both.

\* AudioState.LISTENING / CameraState.CAPTURING
ActiveState == IF kind = "audio" THEN "listening" ELSE "capturing"

Idle == [pc |-> "idle", ctx |-> "none"]

\* no other thread is inside start's locked block
LockFree(th) == \A u \in DevThreads \ {th}: thread[u].ctx # "start_locked"

\* time.time() - self.last_error_time < self.error_cooldown, as a read may
\* find it: the cooldown of an error ends and does not come back
CooldownReads == IF in_cooldown THEN {TRUE, FALSE} ELSE {FALSE}

\* where the thread goes when _attempt_recovery returned True
AfterRecovery(th, ctx) ==
    IF ctx = "loop" THEN [pc |-> "read", ctx |-> "none"]
    ELSE IF ctx = "start_locked" /\ ~dev_running THEN [pc |-> "start_open", ctx |-> "none"]
    ELSE Idle

NeverAlreadyInitializing == FALSE

\* initialize: the test that returns False when an initialization is under way
AlreadyInitializing == state = "initializing"

\* initialize called by the caller, or by a worker running a scheduled
\* _delayed_retry_init: the checks and the first locked block
Initialize(th) ==
    /\ th \in {"caller", "background"}
    /\ thread[th].pc = "idle"
    /\ LockFree(th)
    /\ IF th = "background"
       THEN \E scheduled \in BagToSet(init_retry_tasks):
                init_retry_tasks' = init_retry_tasks (-) SetToBag({scheduled})
       ELSE UNCHANGED init_retry_tasks
    /\ IF ~cv2
       THEN /\ state' = "disabled"
            /\ UNCHANGED <<initialization_attempts, thread>>
       ELSE IF AlreadyInitializing
       THEN UNCHANGED <<state, initialization_attempts, thread>>
       ELSE /\ initialization_attempts < MaxInitCount
            /\ state' = "initializing"
            /\ initialization_attempts' = initialization_attempts + 1
            /\ thread' = [thread EXCEPT ![th] = [pc |-> "init_probe", ctx |-> "none"]]
    /\ UNCHANGED <<outside_dev, recovery_count, kind, cv2, dev_running, device, pyaudio_instance,
                   recovery_attempts, in_cooldown>>

\* initialize: the probing found a working configuration and the test passed.
\* In _attempt_recovery the reset of recovery_attempts follows.
ProbeSucceeds(th) ==
    /\ thread[th].pc \in {"init_probe", "rec_probe"}
    /\ LockFree(th)
    /\ state' = "ready"
    /\ initialization_attempts' = 0
    /\ pyaudio_instance' = (kind = "audio")
    /\ IF thread[th].pc = "rec_probe"
       THEN /\ recovery_attempts' = 0
            /\ thread' = [thread EXCEPT ![th] = AfterRecovery(th, thread[th].ctx)]
       ELSE /\ UNCHANGED recovery_attempts
            /\ thread' = [thread EXCEPT ![th] = Idle]
    /\ UNCHANGED <<outside_dev, recovery_count, kind, cv2, dev_running, device, in_cooldown,
                   init_retry_tasks>>

\* initialize: PyAudio(), the probing or the test failed; the except path's
\* locked block
ProbeFails(th) ==
    /\ thread[th].pc \in {"init_probe", "rec_probe"}
    /\ LockFree(th)
    /\ state' = "error"
    /\ \E created \in BOOLEAN:
         pyaudio_instance' = (kind = "audio" /\ (pyaudio_instance \/ created))
    /\ thread' = [thread EXCEPT ![th].pc =
                     IF @ = "init_probe" THEN "init_failed" ELSE "rec_failed"]
    /\ UNCHANGED <<outside_dev, recovery_count, kind, cv2, dev_running, device,
                   initialization_attempts, recovery_attempts, in_cooldown,
                   init_retry_tasks>>

\* initialize: the backoff of the retry after a failed attempt
retry_delay(attempts) == IF 2 ^ attempts < 30 THEN 2 ^ attempts ELSE 30

\* initialize: the task submitted for a retry (_delayed_retry_init sleeps
\* delay seconds, then calls initialize)
RetryTask(delay) == [priority |-> HIGH, delay |-> delay, timeout |-> 60]

ShouldRetryInitInclusive(attempts) == attempts <= max_init_attempts

\* initialize: whether a failed attempt schedules a retry
ShouldRetryInit(attempts) == attempts < max_init_attempts

\* initialize: the retry it schedules, and the return False; in
\* _attempt_recovery the except path follows
InitFailed(th) ==
    /\ thread[th].pc \in {"init_failed", "rec_failed"}
    /\ IF ShouldRetryInit(initialization_attempts)
       THEN /\ BagCardinality(init_retry_tasks) < MaxRetryTasks
            /\ init_retry_tasks' = init_retry_tasks (+)
                   SetToBag({RetryTask(retry_delay(initialization_attempts))})
       ELSE UNCHANGED init_retry_tasks
    /\ IF thread[th].pc = "rec_failed"
       THEN /\ LockFree(th)
            /\ state' = "error"
            /\ in_cooldown' = TRUE
       ELSE UNCHANGED <<state, in_cooldown>>
    /\ thread' = [thread EXCEPT ![th] = Idle]
    /\ UNCHANGED <<outside_dev, recovery_count, kind, cv2, dev_running, device, pyaudio_instance,
                   initialization_attempts, recovery_attempts>>

CooldownNeverRefuses(cooling) == FALSE

\* _attempt_recovery: the cooldown test that returns False at once
CooldownRefuses(cooling) == cooling

\* _attempt_recovery up to its first locked block, called by th in context ctx
RecoveryEnter(th, ctx) ==
    /\ \E cooling \in CooldownReads:
        /\ in_cooldown' = cooling
        /\ IF CooldownRefuses(cooling)
           THEN /\ thread' = [thread EXCEPT ![th] = Idle]
                /\ UNCHANGED <<state, recovery_attempts, recovery_count>>
           ELSE /\ LockFree(th)
                /\ recovery_attempts < MaxRecoveryCount
                /\ recovery_count < MaxRecoveryCalls
                /\ recovery_attempts' = recovery_attempts + 1
                /\ recovery_count' = recovery_count + 1
                /\ IF recovery_attempts + 1 > max_recovery_attempts
                   THEN /\ thread' = [thread EXCEPT ![th] = Idle]
                        /\ UNCHANGED state
                   ELSE /\ state' = "recovering"
                        /\ thread' = [thread EXCEPT ![th] =
                                         [pc |-> "rec_cleanup", ctx |-> ctx]]
    /\ UNCHANGED <<outside_dev, kind, cv2, dev_running, device, pyaudio_instance,
                   initialization_attempts, init_retry_tasks>>

\* _attempt_recovery called as the registry's recovery callback or by the
\* system monitor
AttemptRecovery ==
    /\ thread["background"].pc = "idle"
    /\ RecoveryEnter("background", "top")

\* _attempt_recovery: _cleanup_audio_resources / _cleanup_camera_resources
RecoveryCleanup(th) ==
    /\ thread[th].pc = "rec_cleanup"
    /\ device' = FALSE
    /\ pyaudio_instance' = FALSE
    /\ thread' = [thread EXCEPT ![th].pc = "rec_init"]
    /\ UNCHANGED <<outside_dev, recovery_count, kind, cv2, state, dev_running,
                   initialization_attempts, recovery_attempts, in_cooldown,
                   init_retry_tasks>>

\* _attempt_recovery: its call of initialize after the sleep.  An initialize
\* that returns False at once sends the recovery to its except path.
RecoveryInitialize(th) ==
    /\ thread[th].pc = "rec_init"
    /\ LockFree(th)
    /\ IF ~cv2 \/ AlreadyInitializing
       THEN /\ state' = "error"
            /\ in_cooldown' = TRUE
            /\ thread' = [thread EXCEPT ![th] = Idle]
            /\ UNCHANGED initialization_attempts
       ELSE /\ initialization_attempts < MaxInitCount
            /\ state' = "initializing"
            /\ initialization_attempts' = initialization_attempts + 1
            /\ thread' = [thread EXCEPT ![th].pc = "rec_probe"]
            /\ UNCHANGED in_cooldown
    /\ UNCHANGED <<outside_dev, recovery_count, kind, cv2, dev_running, device, pyaudio_instance,
                   recovery_attempts, init_retry_tasks>>

\* start_listening / start_capture: the locked block of checks
StartActive ==
    /\ thread["caller"].pc = "idle"
    /\ cv2
    /\ IF state \in {"ready", "stopped"}
       THEN /\ ~dev_running
            /\ thread' = [thread EXCEPT !["caller"] = [pc |-> "start_open", ctx |-> "none"]]
            /\ UNCHANGED <<outside_dev, recovery_count, kind, cv2, state, dev_running, device,
                           pyaudio_instance, initialization_attempts, recovery_attempts,
                           in_cooldown, init_retry_tasks>>
       ELSE /\ state = "error"
            /\ RecoveryEnter("caller", "start_locked")

\* start_listening / start_capture: opening the stream or the camera and
\* starting the threads; on an exception the cleanup and the locked block that
\* sets ERROR.  Without a PyAudio instance the open raises.
StartOpen ==
    /\ thread["caller"].pc = "start_open"
    /\ \E opened \in IF kind = "audio" /\ ~pyaudio_instance THEN {FALSE} ELSE BOOLEAN:
        IF opened
        THEN /\ device' = TRUE
             /\ dev_running' = TRUE
             /\ thread' = [thread EXCEPT
                              !["caller"].pc = "start_commit",
                              !["capture"] = IF kind = "camera" /\ @.pc = "idle"
                                             THEN [pc |-> "read", ctx |-> "none"]
                                             ELSE @]
             /\ UNCHANGED <<state, pyaudio_instance>>
        ELSE /\ device' = FALSE
             /\ pyaudio_instance' = FALSE
             /\ state' = "error"
             /\ thread' = [thread EXCEPT !["caller"].pc = "start_rec"]
             /\ UNCHANGED dev_running
    /\ UNCHANGED <<outside_dev, recovery_count, kind, cv2, initialization_attempts,
                   recovery_attempts, in_cooldown, init_retry_tasks>>

\* start_listening / start_capture: the locked block that sets the active state
StartCommit ==
    /\ thread["caller"].pc = "start_commit"
    /\ state' = ActiveState
    /\ thread' = [thread EXCEPT !["caller"] = Idle]
    /\ UNCHANGED <<outside_dev, recovery_count, kind, cv2, dev_running, device, pyaudio_instance,
                   initialization_attempts, recovery_attempts, in_cooldown,
                   init_retry_tasks>>

\* start_listening / start_capture: _attempt_recovery at the end of the except
\* path
StartRecover ==
    /\ thread["caller"].pc = "start_rec"
    /\ RecoveryEnter("caller", "start_failed")

\* stop_listening / stop_capture: running = False and, for audio, closing the
\* stream
StopBegin ==
    /\ thread["caller"].pc = "idle"
    /\ dev_running' = FALSE
    /\ device' = IF kind = "audio" THEN FALSE ELSE device
    /\ thread' = [thread EXCEPT !["caller"].pc = "stop_join"]
    /\ UNCHANGED <<outside_dev, recovery_count, kind, cv2, state, pyaudio_instance,
                   initialization_attempts, recovery_attempts, in_cooldown,
                   init_retry_tasks>>

\* stop_listening / stop_capture: the joins are over (the capture thread left
\* its loop, or is inside a recovery when the join times out), the camera is
\* released and the final locked block sets the state
StopEnd ==
    /\ thread["caller"].pc = "stop_join"
    /\ thread["capture"].pc # "read"
    /\ device' = FALSE
    /\ state' = IF cv2 THEN "stopped" ELSE "disabled"
    /\ thread' = [thread EXCEPT !["caller"] = Idle]
    /\ UNCHANGED <<outside_dev, recovery_count, kind, cv2, dev_running, pyaudio_instance,
                   initialization_attempts, recovery_attempts, in_cooldown,
                   init_retry_tasks>>

\* _capture_loop: an exception in an iteration (a read that raises, or no
\* camera object) and the _attempt_recovery of its handler
CaptureFails ==
    /\ thread["capture"].pc = "read"
    /\ dev_running
    /\ RecoveryEnter("capture", "loop")

\* _capture_loop: while self.running found False
CaptureExit ==
    /\ thread["capture"].pc = "read"
    /\ ~dev_running
    /\ thread' = [thread EXCEPT !["capture"] = Idle]
    /\ UNCHANGED <<outside_dev, recovery_count, kind, cv2, state, dev_running, device,
                   pyaudio_instance, initialization_attempts, recovery_attempts,
                   in_cooldown, init_retry_tasks>>

\* ------------------------------------------------- the two locks
\* The threads that hold TaskQueue.lock and RobustAudioManager.lock at the
\* same time: a pool thread in the except path of _execute_task, which calls
\* the task's error callback inside the queue's locked block, and the thread
\* calling start_listening, whose recovery of an ERROR state runs inside the
\* manager's locked block.  The device is one whose initialization fails.
\* A step that needs a lock waits until the lock is free.

\* _execute_task: a voice-command task raised with no retry left; the locked
\* block of the except path up to the call of task.error_callback
ExecuteTaskFailed(w) ==
    /\ lock_pc[w] = "idle"
    /\ lock_owner.queue = NoOwner
    /\ lock_owner' = [lock_owner EXCEPT !.queue = w]
    /\ lock_pc' = [lock_pc EXCEPT ![w] = "error_callback"]
    /\ UNCHANGED <<queue_vars, rm_vars, dev_vars, probe_vars, reported_status, reporter>>

\* _on_speech_error: its locked block, then the end of _execute_task's
\* locked block
OnSpeechError(w) ==
    /\ lock_pc[w] = "error_callback"
    /\ lock_owner.audio = NoOwner
    /\ lock_owner' = [lock_owner EXCEPT !.queue = NoOwner]
    /\ lock_pc' = [lock_pc EXCEPT ![w] = "done"]
    /\ UNCHANGED <<queue_vars, rm_vars, dev_vars, probe_vars, reported_status, reporter>>

\* start_listening in state ERROR: its locked block with _attempt_recovery
\* and the failing initialize inside it, up to initialize's submit_task
StartListeningLocked ==
    /\ lock_pc[Starter] = "idle"
    /\ lock_owner.audio = NoOwner
    /\ state = "error"
    /\ \E cooling \in CooldownReads:
        /\ in_cooldown' = cooling
        /\ IF CooldownRefuses(cooling)
           THEN UNCHANGED <<state, recovery_attempts, recovery_count, device,
                            pyaudio_instance, initialization_attempts, lock_owner,
                            lock_pc>>
           ELSE /\ recovery_attempts < MaxRecoveryCount
                /\ recovery_count < MaxRecoveryCalls
                /\ recovery_attempts' = recovery_attempts + 1
                /\ recovery_count' = recovery_count + 1
                /\ IF recovery_attempts + 1 > max_recovery_attempts
                   THEN UNCHANGED <<state, device, pyaudio_instance,
                                    initialization_attempts, lock_owner, lock_pc>>
                   ELSE /\ initialization_attempts < MaxInitCount
                        /\ initialization_attempts' = initialization_attempts + 1
                        /\ device' = FALSE
                        /\ \E created \in BOOLEAN: pyaudio_instance' = created
                        /\ state' = "error"
                        /\ lock_owner' = [lock_owner EXCEPT !.audio = Starter]
                        /\ lock_pc' = [lock_pc EXCEPT ![Starter] = "init_failed"]
    /\ UNCHANGED <<queue_vars, rm_vars, probe_vars, reported_status, reporter, kind, cv2,
                   dev_running, init_retry_tasks, thread>>

\* initialize inside start_listening's locked block: the retry it submits
\* under the queue's lock if one is due, the return False, the except path of
\* _attempt_recovery and the end of start_listening's locked block
StartListeningSubmit ==
    /\ lock_pc[Starter] = "init_failed"
    /\ IF ShouldRetryInit(initialization_attempts)
       THEN /\ lock_owner.queue = NoOwner
            /\ init_retry_tasks' = init_retry_tasks (+)
                   SetToBag({RetryTask(retry_delay(initialization_attempts))})
       ELSE UNCHANGED init_retry_tasks
    /\ state' = "error"
    /\ in_cooldown' = TRUE
    /\ lock_owner' = [lock_owner EXCEPT !.audio = NoOwner]
    /\ lock_pc' = [lock_pc EXCEPT ![Starter] = "idle"]
    /\ UNCHANGED <<queue_vars, rm_vars, probe_vars, reported_status, reporter, kind, cv2,
                   dev_running, device, pyaudio_instance, initialization_attempts,
                   recovery_attempts, recovery_count, thread>>

\* ------------------------------------------------- camera probing
\* _test_camera_index
test_camera_index(camera_index) == camera_index \in index_readable

\* _test_camera_settings
test_camera_settings(camera_index, resolution, fps) ==
    <<camera_index, resolution, fps>> \in settings_work

\* _test_camera_capture, which opens self.config.camera_index
test_camera_capture(cfg) == cfg.camera_index \in capture_works

\* the first i of range(10) that passes _test_camera_index
FirstReadable == CHOOSE i \in index_readable: \A j \in index_readable: i <= j

\* the positions <<r, f>> of the resolution and fps loops whose settings test
\* passes when camera_index is opened
SettingsHits(camera_index) ==
    {rf \in (1..Len(fallback_resolutions)) \X (1..Len(fallback_fps)):
        test_camera_settings(camera_index, fallback_resolutions[rf[1]], fallback_fps[rf[2]])}

\* the first of them in the order of the nested loops
FirstHit(hits) ==
    CHOOSE rf \in hits: \A o \in hits:
        rf[1] < o[1] \/ (rf[1] = o[1] /\ rf[2] <= o[2])

\* the index the settings loops probe: the loop variable camera_index, also
\* for the entry -1, where config.camera_index holds the index found
ProbedIndex(camera_index, found) == camera_index

\* _find_working_camera_config from the k-th entry of fallback_indices on,
\* with the configuration as written so far
RECURSIVE find_working_camera_config(_, _)
find_working_camera_config(k, cfg) ==
    IF k > Len(fallback_indices) THEN [ok |-> FALSE, config |-> cfg]
    ELSE LET camera_index == fallback_indices[k]
             passes == IF camera_index = -1 THEN index_readable # {}
                       ELSE test_camera_index(camera_index)
             found == IF camera_index = -1 THEN FirstReadable ELSE camera_index
             hits == SettingsHits(ProbedIndex(camera_index, found))
         IN IF ~passes THEN find_working_camera_config(k + 1, cfg)
            ELSE IF hits = {}
            THEN find_working_camera_config(k + 1, [cfg EXCEPT !.camera_index = found])
            ELSE [ok |-> TRUE,
                  config |-> [camera_index |-> found,
                              width |-> fallback_resolutions[FirstHit(hits)[1]][1],
                              height |-> fallback_resolutions[FirstHit(hits)[1]][2],
                              fps |-> fallback_fps[FirstHit(hits)[2]]]]

\* initialize: the probing between its locked blocks, and what it returns
ProbeInitialize ==
    /\ init_result = None
    /\ LET search == find_working_camera_config(1, config)
       IN /\ config' = search.config
          /\ init_result' = IF search.ok /\ test_camera_capture(search.config)
                             THEN "True" ELSE "False"
    /\ UNCHANGED <<queue_vars, lock_vars, rm_vars, dev_vars, index_readable, settings_work,
                   capture_works, reported_status, reporter>>

\* ------------------------------------------------- health polling
\* SystemStatus.audio_available / camera_available of get_system_status
Available(st) == st \in {"ready", "listening", "capturing"}

\* the status _check_system_health reports for a manager in state st
ReportedStatus(st) == IF Available(st) THEN "healthy" ELSE "warning"

\* _check_system_health, run by the main loop about every 30 seconds: the
\* only health report made for a resource manager, from the state it reads
CheckSystemHealth ==
    /\ reported_status' = ReportedStatus(state)
    /\ UNCHANGED <<queue_vars, lock_vars, rm_vars, dev_vars, probe_vars, reporter>>

\* ---------------------------------------------------------------- specification
Next ==
    \/ Start
    \/ Stop
    \/ \E p \in Priorities, mr \in {0, MaxRetry}, to \in Timeouts: SubmitTask(p, mr, to)
    \/ \E t \in TaskIds: CancelTask(t)
    \/ DispatcherCheck
    \/ DispatcherEmpty
    \/ DispatcherGet
    \/ DispatcherAssign
    \/ WorkerTake
    \/ \E t \in TaskIds, k \in Attempts, v \in Values: PayloadReturn(t, k, v)
    \/ \E t \in TaskIds, k \in Attempts: PayloadRaise(t, k)
    \/ \E t \in TaskIds, k \in Attempts: WorkerReturn(t, k)
    \/ \E t \in TaskIds: RetryWake(t)
    \/ MonitorScan
    \/ MonitorHandle
    \/ MonitorCleanup

Spec == Init /\ [][Next]_vars

\* Spec with the tasks cancel_task marked recorded in cancel_log
NextCancelLog ==
    \/ Start
    \/ Stop
    \/ \E p \in Priorities, mr \in {0, MaxRetry}, to \in Timeouts: SubmitTask(p, mr, to)
    \/ \E t \in TaskIds: CancelTaskLogged(t)
    \/ DispatcherCheck
    \/ DispatcherEmpty
    \/ DispatcherGet
    \/ DispatcherAssign
    \/ WorkerTake
    \/ \E t \in TaskIds, k \in Attempts, v \in Values: PayloadReturn(t, k, v)
    \/ \E t \in TaskIds, k \in Attempts: PayloadRaise(t, k)
    \/ \E t \in TaskIds, k \in Attempts: WorkerReturn(t, k)
    \/ \E t \in TaskIds: RetryWake(t)
    \/ MonitorScan
    \/ MonitorHandle
    \/ MonitorCleanup

SpecCancelLog == Init /\ [][NextCancelLog]_vars

\* the scheduling of the threads: the dispatcher thread, the pool's workers and
\* the retry threads keep being scheduled, and every payload call ends, by
\* returning or by raising
Fairness ==
    /\ WF_vars(DispatcherCheck)
    /\ WF_vars(DispatcherEmpty)
    /\ WF_vars(DispatcherGet)
    /\ WF_vars(DispatcherAssign)
    /\ WF_vars(WorkerTake)
    /\ \A t \in TaskIds, k \in Attempts:
          /\ WF_vars((\E v \in Values: PayloadReturn(t, k, v)) \/ PayloadRaise(t, k))
          /\ WF_vars(WorkerReturn(t, k))
    /\ \A t \in TaskIds: WF_vars(RetryWake(t))

\* the queue once started and never stopped
NextRunning ==
    \/ Start
    \/ \E p \in Priorities, mr \in {0, MaxRetry}, to \in Timeouts: SubmitTask(p, mr, to)
    \/ \E t \in TaskIds: CancelTask(t)
    \/ DispatcherCheck
    \/ DispatcherEmpty
    \/ DispatcherGet
    \/ DispatcherAssign
    \/ WorkerTake
    \/ \E t \in TaskIds, k \in Attempts, v \in Values: PayloadReturn(t, k, v)
    \/ \E t \in TaskIds, k \in Attempts: PayloadRaise(t, k)
    \/ \E t \in TaskIds, k \in Attempts: WorkerReturn(t, k)
    \/ \E t \in TaskIds: RetryWake(t)
    \/ MonitorScan
    \/ MonitorHandle
    \/ MonitorCleanup

SpecRunning == Init /\ [][NextRunning]_vars /\ Fairness

\* the reliability manager with its callers' thread and its monitor thread
NextReliability ==
    \/ RmStart
    \/ RmStop
    \/ \E name \in CallerNames, cb \in BOOLEAN: register_component(name, cb)
    \/ \E name \in CallerNames, status \in HealthStatuses, error \in ErrorArgs:
          report_component_health(name, status, error)
    \/ \E name \in CallerNames, text \in ExceptionTexts, context \in Contexts:
          report_error(name, text, context)
    \/ \E name \in CallerNames: force_component_recovery(name)
    \/ \E outcome \in RecoveryOutcomes: CallerRecoveryReturns(outcome)
    \/ RmMonitorLoop
    \/ RmMonitorCheck
    \/ \E outcome \in RecoveryOutcomes: MonitorRecoveryReturns(outcome)

SpecReliability == Init /\ [][NextReliability]_vars

\* a registry of at most MaxComponents components in any statuses, as
\* register_component and report_component_health calls leave it
InitHealth ==
    /\ QueueInit
    /\ \E k \in 0..MaxComponents:
        /\ component_names = [i \in 1..k |-> i]
        /\ \E statuses \in [1..k -> HealthStatuses]:
             components = [c \in Names |->
                             IF c <= k
                             THEN [NewComponent EXCEPT !.status = statuses[c]]
                             ELSE NoComponent]
    /\ recovery_callbacks = {}
    /\ global_error_count = 0
    /\ rm_running = FALSE
    /\ rm_caller = [pc |-> "idle", name |-> 0]
    /\ rm_monitor = [pc |-> "none", i |-> 0, n |-> 0, detached |-> FALSE]
    /\ overall_status = None
    /\ DevInit("audio", TRUE)
    /\ ProbeInit
    /\ ReportsInit
    /\ LocksInit

SpecHealth == InitHealth /\ [][GetSystemHealth]_vars

\* an audio manager, a camera manager, or a camera manager without cv2
InitDevice ==
    /\ QueueInit
    /\ RmInit
    /\ ProbeInit
    /\ ReportsInit
    /\ LocksInit
    /\ \/ DevInit("audio", TRUE)
       \/ \E imported \in BOOLEAN: DevInit("camera", imported)

\* the manager with a device whose initialization never succeeds
NextFailing ==
    \/ \E th \in DevThreads: Initialize(th)
    \/ \E th \in DevThreads: ProbeFails(th)
    \/ \E th \in DevThreads: InitFailed(th)
    \/ AttemptRecovery
    \/ \E th \in DevThreads: RecoveryCleanup(th)
    \/ \E th \in DevThreads: RecoveryInitialize(th)
    \/ StartActive
    \/ StartOpen
    \/ StartCommit
    \/ StartRecover
    \/ StopBegin
    \/ StopEnd
    \/ CaptureFails
    \/ CaptureExit

SpecDeviceFailing == InitDevice /\ [][NextFailing]_vars

NextDevice ==
    \/ \E th \in DevThreads: ProbeSucceeds(th)
    \/ NextFailing

SpecDevice == InitDevice /\ [][NextDevice]_vars

\* a camera manager before initialize, on any hardware: which indices
\* deliver frames, which settings take, where the capture test passes
InitProbe ==
    /\ QueueInit
    /\ RmInit
    /\ DevInit("camera", TRUE)
    /\ index_readable \in SUBSET CameraIndices
    /\ settings_work \in SUBSET (OpenArgs \X SeqRange(fallback_resolutions)
                                          \X SeqRange(fallback_fps))
    /\ capture_works \in SUBSET index_readable
    /\ config = DefaultConfig
    /\ init_result = None
    /\ ReportsInit
    /\ LocksInit

SpecProbe == InitProbe /\ [][ProbeInitialize]_vars

\* a resource manager and the health polling of the main loop
NextPolled ==
    \/ NextDevice
    \/ CheckSystemHealth

SpecPolled == InitDevice /\ [][NextPolled]_vars

\* a registry with one registered component, about to receive the reports
InitReports ==
    /\ QueueInit
    /\ DevInit("audio", TRUE)
    /\ ProbeInit
    /\ ReportsInit
    /\ LocksInit
    /\ components = [c \in Names |-> IF c = ReportedName THEN NewComponent ELSE NoComponent]
    /\ component_names = <<ReportedName>>
    /\ recovery_callbacks = {}
    /\ global_error_count = 0
    /\ rm_running = FALSE
    /\ rm_caller = [pc |-> "idle", name |-> 0]
    /\ rm_monitor = [pc |-> "none", i |-> 0, n |-> 0, detached |-> FALSE]
    /\ overall_status = None

NextReports ==
    \/ \E th \in Reporters, status \in HealthStatuses: ReportStatus(th, status)
    \/ \E th \in Reporters: ReportLoadCount(th)
    \/ \E th \in Reporters: ReportStoreCount(th)
    \/ \E th \in Reporters: ReportLoadGlobal(th)
    \/ \E th \in Reporters: ReportStoreGlobal(th)

SpecReports == InitReports /\ [][NextReports]_vars

\* an audio manager whose initialize calls so far have failed, the last one
\* having scheduled its retry
InitLocks ==
    /\ QueueInit
    /\ RmInit
    /\ ProbeInit
    /\ ReportsInit
    /\ LocksInit
    /\ kind = "audio"
    /\ cv2 = TRUE
    /\ state = "error"
    /\ dev_running = FALSE
    /\ device = FALSE
    /\ pyaudio_instance \in BOOLEAN
    /\ initialization_attempts \in 1..(max_init_attempts - 1)
    /\ recovery_attempts = 0
    /\ recovery_count = 0
    /\ in_cooldown = FALSE
    /\ init_retry_tasks = SetToBag({RetryTask(retry_delay(initialization_attempts))})
    /\ thread = [th \in DevThreads |-> Idle]

NextLocks ==
    \/ \E w \in LockWorkers: ExecuteTaskFailed(w)
    \/ \E w \in LockWorkers: OnSpeechError(w)
    \/ StartListeningLocked
    \/ StartListeningSubmit

SpecLocks == InitLocks /\ [][NextLocks]_vars

\* a queue whose tasks need no retry and meet no timeout, cancel or stop
InitPriority ==
    /\ TaskQueue__init__(PriorityIds)
    /\ RmInit
    /\ DevInit("audio", TRUE)
    /\ ProbeInit
    /\ ReportsInit
    /\ LocksInit

NextPriority ==
    \/ Start
    \/ \E p \in Priorities: SubmitTaskObserved(p, 0, 0)
    \/ DispatcherCheck
    \/ DispatcherEmpty
    \/ DispatcherGet
    \/ DispatcherAssign
    \/ WorkerTake
    \/ \E t \in PriorityIds, k \in Attempts, v \in Values: PayloadReturn(t, k, v)
    \/ \E t \in PriorityIds, k \in Attempts: WorkerReturn(t, k)

SpecPriority == InitPriority /\ [][NextPriority]_vars

\* a queue whose payloads return, with the registry's recovery callback
\* restarting it
NextRestart ==
    \/ Start
    \/ RestartTaskQueue
    \/ \E p \in Priorities: SubmitTask(p, 0, 0)
    \/ DispatcherCheck
    \/ DispatcherEmpty
    \/ DispatcherGet
    \/ DispatcherAssign
    \/ WorkerTake
    \/ \E t \in TaskIds, k \in Attempts, v \in Values: PayloadReturn(t, k, v)
    \/ \E t \in TaskIds, k \in Attempts: WorkerReturn(t, k)
    \/ MonitorScan
    \/ MonitorCleanup

SpecRestart == Init /\ [][NextRestart]_vars

\* the histories of a started queue whose tasks finish between the sweeps of
\* the monitor
NextHistory ==
    \/ Start
    \/ HistoryCompleted
    \/ HistoryFailed
    \/ MonitorScan
    \/ MonitorCleanup

SpecHistory == Init /\ [][NextHistory]_vars

\* ---------------------------------------------------------------- claims
\* u comes before t in the order (priority, creation time)
Precedes(u, t) ==
    \/ task[u].priority < task[t].priority
    \/ /\ task[u].priority = task[t].priority
       /\ task[u].created_at < task[t].created_at

\* the task failed for good in the except path and the monitor never timed it out
FailedByException(t) ==
    /\ task[t].status = "failed"
    /\ task[t].error = "Exception"
    /\ ~obs[t].timedout

\* C1: in every reachable state every task's attempt counter is at most its
\* max_retries + 1, whatever the interleaving of submit, dispatch, payload
\* outcome, retry, cancel and timeout sweep.
C1_AttemptsBounded ==
    \A t \in TaskIds: task[t].attempts <= task[t].max_retries + 1

\* C1 witness: a task with max_retries = MaxRetry was retried until the except
\* path gave up: every allowed attempt was dispatched and raised.
C1_Witness ==
    \E t \in TaskIds:
        /\ task[t].max_retries = MaxRetry
        /\ task[t].attempts = MaxRetry
        /\ obs[t].raised = MaxRetry
        /\ task[t].status = "failed"

\* C2: whenever the dispatcher takes a task out of the pending queue, no task
\* pending at that moment precedes it by (priority, creation time).
C2_DispatchMinimal ==
    [][\A t \in TaskIds:
         (t \in task_queue /\ t \notin task_queue') =>
             \A u \in task_queue: ~Precedes(u, t)]_vars

\* C2 witness: the dispatcher has just taken task 2 while task 1, submitted
\* before it and never dispatched, is still pending with a lower priority.
C2_Witness ==
    /\ dispatcher.pc = "assign"
    /\ dispatcher.t = 2
    /\ 1 \in task_queue
    /\ task[1].attempts = 0
    /\ task[2].priority < task[1].priority
    /\ task[1].created_at < task[2].created_at

\* C3: a task whose payload raised on every attempt and that never timed out
\* ends FAILED after exactly max_retries + 1 executions of its payload.
C3_FailsAfterAllRetries ==
    \A t \in TaskIds:
        FailedByException(t) => obs[t].execs = task[t].max_retries + 1

\* C4: a task whose payload raises on its first k attempts, k <= max_retries,
\* is given attempt k + 1: it is not FAILED after k <= max_retries raises, and
\* when the payload then returns it is COMPLETED with attempts = k + 1.
C4_RetriedWithinBudget ==
    \A t \in TaskIds:
        /\ FailedByException(t) => obs[t].raised > task[t].max_retries
        /\ (task[t].status = "completed" /\ ~obs[t].timedout)
               => task[t].attempts = obs[t].raised + 1

\* C5: once the monitor has marked a task FAILED with a timeout error, its
\* status never becomes RETRYING, PENDING, RUNNING or COMPLETED again and its
\* attempt counter never increases.
C5_TimeoutTerminal ==
    [][\A t \in TaskIds:
         obs[t].timedout =>
             /\ task'[t].status \notin {"retrying", "pending", "running", "completed"}
             /\ task'[t].attempts = task[t].attempts]_vars

\* C6: a task that cancel_task has marked CANCELLED, or that has completed, is
\* never in the pending queue again.
C6_NoRequeueAfterCancel ==
    \A t \in TaskIds:
        (t \in cancel_log \/ obs[t].retval # None) => t \notin task_queue

\* C7: cancel_task marks a task CANCELLED (and returns True) only if the
\* task's payload has not started running.
C7_CancelOnlyBeforeStart ==
    [][\A t \in TaskIds:
         (task'[t].status = "cancelled" /\ task[t].status # "cancelled") =>
             \A k \in Attempts: fut[t][k] \notin {"running", "post_ok", "post_err"}]_vars

\* C8: once stop() has begun, submit_task adds no task to the queue.
C8_NoSubmitAfterStop ==
    [][(shutdown_event /\ ~running) =>
         (next_id' = next_id /\ task_queue' \subseteq task_queue)]_vars

\* C9: while the queue is running, a task whose payload has returned normally
\* is COMPLETED.
C9_ReturnedMeansCompleted ==
    \A t \in TaskIds:
        (running /\ obs[t].retval # None) => task[t].status = "completed"

\* C10: get_task_result returns the payload's value for a COMPLETED task still
\* in the history, and None for a task whose status is not COMPLETED.
C10_ResultOnlyWhenCompleted ==
    \A t \in Submitted:
        /\ (task[t].status = "completed" /\ InSeq(completed_tasks, t))
               => get_task_result(t) = obs[t].retval
        /\ task[t].status # "completed" => get_task_result(t) = None

\* C11: for every task id submit_task has returned (none is evicted from the
\* history within these bounds) get_task_status returns the task's current
\* status: PENDING in the queue, RUNNING while dispatched, RETRYING during the
\* retry delay, the terminal status afterwards; never not-found.
C11_StatusOfEverySubmittedTask ==
    \A t \in Submitted: get_task_status(t) = task[t].status

\* every task put into the queue has been handed to the pool, every work item
\* has been taken by a worker, and every worker is back in the pool
Quiet == task_queue = {} /\ workq = <<>> /\ Busy = 0

C13_CallbackOutsideLockAfterCommit ==
    [][\A t \in TaskIds:
         (obs'[t].cb # obs[t].cb \/ obs'[t].errcb # obs[t].errcb) =>
             /\ task[t].status \in {"completed", "failed"}
             /\ UNCHANGED <<active_tasks, completed_tasks, failed_tasks, stats>>]_vars

\* the components get_system_health sees
Registered == {c \in Names: components[c].status # "none"}

\* the overall-health rule, from the statuses of the registered components
OverallHealthRule ==
    IF \E c \in Registered: components[c].status \in {"failed", "critical"}
    THEN "critical"
    ELSE IF \E c \in Registered: components[c].status = "recovering"
    THEN "warning"
    ELSE IF 2 * Cardinality({c \in Registered: components[c].status = "warning"})
                > Cardinality(Registered)
    THEN "warning"
    ELSE "healthy"

\* C14: the overall status get_system_health reports is CRITICAL if any
\* component is FAILED or CRITICAL, else WARNING if any is RECOVERING, else
\* WARNING if strictly more than half are WARNING, else HEALTHY (HEALTHY for an
\* empty registry), for every combination of statuses of up to MaxComponents
\* components.
C14_OverallHealth ==
    overall_status # None => overall_status = OverallHealthRule

\* C14 witness: exactly half of four components are WARNING, the others
\* HEALTHY, and get_system_health has reported HEALTHY.
C14_Witness ==
    /\ Len(component_names) = 4
    /\ Cardinality({c \in Registered: components[c].status = "warning"}) = 2
    /\ Cardinality({c \in Registered: components[c].status = "healthy"}) = 2
    /\ overall_status = "healthy"

\* the step counted an error for name and triggered recovery exactly if the
\* count reached the threshold
ErrorCounted(name) ==
    /\ components'[name].error_count = components[name].error_count + 1
    /\ global_error_count' = global_error_count + 1
    /\ components'[name].recovery_attempts =
           IF components[name].error_count + 1 >= max_error_count
           THEN components[name].recovery_attempts + 1
           ELSE components[name].recovery_attempts

\* the step counted no error and triggered no recovery
NoErrorCounted(name) ==
    /\ components'[name].error_count = components[name].error_count
    /\ global_error_count' = global_error_count
    /\ components'[name].recovery_attempts = components[name].recovery_attempts

\* C15: a health report that carries an error adds one to the component's
\* error count and one to the global error count and triggers recovery exactly
\* when the new count has reached max_error_count; a report without an error
\* changes neither count and triggers nothing; every report_error call is a
\* report that carries an error.
C15_ErrorReportCounted ==
    [][\A name \in CallerNames:
         /\ \A status \in HealthStatuses:
              /\ report_component_health(name, status, "e") => ErrorCounted(name)
              /\ report_component_health(name, status, None) => NoErrorCounted(name)
         /\ \A text \in ExceptionTexts, context \in Contexts:
              report_error(name, text, context) => ErrorCounted(name)]_vars

\* what _trigger_component_recovery leaves in the registry when the callback
\* ends with outcome
RecoveryResult(name, outcome) ==
    IF outcome = "true"
    THEN /\ components'[name].status = "healthy"
         /\ components'[name].error_count = 0
    ELSE /\ components'[name].status = "failed"
         /\ components'[name].error_count = components[name].error_count

\* C16: a recovery trigger for a component with a recovery callback adds one
\* to its recovery_attempts and sets RECOVERING before the callback runs; when
\* the trigger returns the component is HEALTHY with error count 0 if the
\* callback returned true, FAILED with its error count unchanged otherwise.
C16_RecoveryOutcome ==
    [][/\ \A name \in CallerNames:
            (/\ name \in recovery_callbacks
             /\ InSeq(component_names, name)
             /\ \/ rm_caller.pc = "idle" /\ rm_caller'.pc = "callback"
                                         /\ rm_caller'.name = name
                \/ rm_monitor.pc = "check" /\ rm_monitor'.pc = "callback"
                                           /\ component_names[rm_monitor.i] = name)
            => /\ components'[name].recovery_attempts =
                      components[name].recovery_attempts + 1
               /\ components'[name].status = "recovering"
       /\ \A outcome \in RecoveryOutcomes:
            /\ CallerRecoveryReturns(outcome)
                   => RecoveryResult(rm_caller.name, outcome)
            /\ MonitorRecoveryReturns(outcome)
                   => RecoveryResult(component_names[rm_monitor.i], outcome)]_vars

\* C17: a recovery trigger for a component registered without a recovery
\* callback leaves the component WARNING.
C17_NoCallbackLeavesWarning ==
    [][\A name \in CallerNames:
         (/\ name \notin recovery_callbacks
          /\ components'[name].recovery_attempts =
                 components[name].recovery_attempts + 1)
         => components'[name].status = "warning"]_vars

\* C18: register_component for a name that is already registered leaves the
\* component's record unchanged.
C18_RegisterIdempotent ==
    [][\A name \in CallerNames, cb \in BOOLEAN:
         (InSeq(component_names, name) /\ register_component(name, cb))
         => components'[name] = components[name]]_vars


\* C19: for both resource managers the active state (LISTENING, CAPTURING) is
\* entered only from READY: the state immediately before any entry into the
\* active state is READY.
C19_ActiveOnlyFromReady ==
    [][(state # ActiveState /\ state' = ActiveState) => state = "ready"]_vars

\* C20: for both resource managers ERROR is exited only via RECOVERING:
\* whenever the state changes away from ERROR the next state is RECOVERING.
C20_ErrorExitsViaRecovering ==
    [][(state = "error" /\ state' # "error") => state' = "recovering"]_vars


\* the recovery budget is used up
BudgetExhausted == recovery_attempts > max_recovery_attempts

RecoveryPcs == {"rec_cleanup", "rec_init", "rec_probe", "rec_failed"}

\* some thread is inside a recovery cycle
RecoveryInFlight == \E th \in DevThreads: thread[th].pc \in RecoveryPcs

\* a step of the caller of initialize / start / stop
CallerStep == thread'["caller"] # thread["caller"] \/ Initialize("caller")

\* a recovery cycle begins: RECOVERING is stored and the cleanup follows
CycleBegins == \E th \in DevThreads:
    thread[th].pc \notin RecoveryPcs /\ thread'[th].pc = "rec_cleanup"

\* C21: with an initialization that always fails, recovery cycles run only
\* within the budget of max_recovery_attempts; once the budget is used up no
\* _attempt_recovery call starts a cycle or re-initializes, and from then on
\* the state is ERROR until the caller resets the manager.
C21_ErrorPermanentAfterBudget ==
    [][/\ CycleBegins => recovery_attempts' <= max_recovery_attempts
       /\ (BudgetExhausted /\ state = "error" /\ ~RecoveryInFlight /\ ~CallerStep)
             => state' = "error"]_vars


\* a call of _attempt_recovery: as recovery callback or by the system
\* monitor, by the capture loop, or by start
RecoveryCalled ==
    \/ AttemptRecovery
    \/ CaptureFails
    \/ StartRecover
    \/ (StartActive /\ state = "error")

\* C22: _attempt_recovery called while less than the cooldown has elapsed
\* since last_error_time is a no-op: the state, the recovery counter, the
\* statistics and the device handles are unchanged (and so are the running
\* flag, the initialization counter and the scheduled retries).
C22_CooldownNoOp ==
    [][(RecoveryCalled /\ in_cooldown') =>
          UNCHANGED <<state, recovery_attempts, recovery_count, device,
                      pyaudio_instance, dev_running, initialization_attempts,
                      init_retry_tasks>>]_vars

\* a failed recovery cycle started the cooldown and the next call can come
C22_Witness ==
    /\ in_cooldown
    /\ state = "error"
    /\ recovery_attempts \in 1..max_recovery_attempts
    /\ thread["background"].pc = "idle"
    /\ ENABLED (AttemptRecovery /\ in_cooldown')


\* the smaller of 2^attempts and 30
BackoffRule(attempts) ==
    CHOOSE d \in {2 ^ attempts, 30}: d <= 2 ^ attempts /\ d <= 30

\* the step submits one retry task of HIGH priority with the delay d
RetryScheduledWith(d) ==
    init_retry_tasks' =
        init_retry_tasks (+) SetToBag({[priority |-> HIGH, delay |-> d, timeout |-> 60]})

\* C23: after a failed initialize a retry is submitted at HIGH priority if
\* and only if the attempt counter is below 5, with delay min(2^attempts, 30);
\* with initializations that always fail the delays are 2, 4, 8, 16 seconds,
\* never more than 30, a retry is at most the fifth attempt, and at a counter
\* of 5 the manager gives up with no further retry scheduled.
C23_RetryBackoff ==
    [][\A th \in DevThreads: InitFailed(th) =>
          IF initialization_attempts < 5
          THEN /\ RetryScheduledWith(BackoffRule(initialization_attempts))
               /\ BackoffRule(initialization_attempts) \in {2, 4, 8, 16}
               /\ initialization_attempts + 1 <= 5
          ELSE UNCHANGED init_retry_tasks]_vars

\* the chain made its fifth attempt and gave up
C23_Witness ==
    /\ initialization_attempts = 5
    /\ state = "error"
    /\ init_retry_tasks = EmptyBag
    /\ recovery_attempts = 0
    /\ \A th \in DevThreads: thread[th].pc = "idle"


\* C24: initialize called while the state is INITIALIZING returns False and
\* changes nothing: the state stays INITIALIZING, the attempt counter is not
\* incremented, no retry is scheduled and no probing starts.
C24_InitializeWhileInitializing ==
    [][\A th \in {"caller", "background"}:
          (Initialize(th) /\ state = "initializing") =>
              /\ state' = "initializing"
              /\ thread' = thread
              /\ BagCardinality(init_retry_tasks') <= BagCardinality(init_retry_tasks)
              /\ UNCHANGED <<initialization_attempts, recovery_attempts, recovery_count,
                             dev_running, device, pyaudio_instance, in_cooldown>>]_vars

\* a scheduled retry is probing and the caller can call initialize
C24_Witness ==
    /\ state = "initializing"
    /\ thread["background"].pc = "init_probe"
    /\ thread["caller"].pc = "idle"
    /\ ENABLED Initialize("caller")


\* C25: DISABLED is terminal: once the camera manager is DISABLED no
\* operation (initialize, start_capture, stop_capture, _attempt_recovery)
\* moves it to any other state.
C25_DisabledTerminal ==
    [][state = "disabled" => state' = "disabled"]_vars


\* the configuration initialize recorded passed its settings probe
RecordedWasProbed ==
    <<config.camera_index, <<config.width, config.height>>, config.fps>> \in settings_work

\* C26: initialize records as the working configuration the first candidate
\* of the fallback matrix whose probe succeeds, and the recorded configuration
\* is the candidate that was probed: when it returns True the recorded index,
\* resolution and fps passed the settings probe; when indices 0 and 1 fail and
\* index 2 succeeds it returns True with camera index 2; when every candidate
\* fails it returns False.
C26_RecordsProbedCandidate ==
    init_result # None =>
        /\ init_result = "True" => RecordedWasProbed
        /\ (/\ index_readable \cap {0, 1} = {}
            /\ 2 \in capture_works
            /\ SettingsHits(2) # {})
              => init_result = "True" /\ config.camera_index = 2
        /\ (index_readable = {} \/ settings_work = {}) => init_result = "False"


\* the status the registry holds for the manager's component: HEALTHY from
\* register_component, then what the last report stored
MirroredStatus ==
    IF reported_status = None THEN "healthy" ELSE reported_status

\* C27: every state transition of a resource manager is followed by a health
\* report to the registry, so the mirrored status reflects the transition:
\* when the next transition comes, the state it leaves has been reported.
C27_TransitionsReported ==
    [][state' # state =>
          \/ reported_status # None /\ MirroredStatus = ReportedStatus(state)
          \/ reported_status = None /\ state \in {"stopped", "disabled"}]_vars


\* the state stop_listening / stop_capture ends in
StoppedState == IF cv2 THEN "stopped" ELSE "disabled"

\* C28: when stop_listening / stop_capture returns the running flag is false,
\* the device handle is released and the state is STOPPED (DISABLED without
\* the camera driver); the state then stays so until the caller's next
\* initialize or start, even if a scheduled initialization retry or a
\* recovery was in flight when stop was called.
C28_StoppedStays ==
    [][/\ StopEnd => (~dev_running' /\ ~device' /\ state' = StoppedState)
       /\ (/\ state = "stopped"
           /\ thread["caller"].pc = "idle"
           /\ ~CallerStep
           /\ ~RecoveryCalled)
             => state' = "stopped"]_vars


\* every reporting thread has returned from report_component_health
AllReported == \A th \in Reporters: reporter[th].pc = "done"

\* C29: health records are updated under mutual exclusion: after k
\* concurrent error-carrying reports for one component (k below the recovery
\* threshold) the component's error count and the global error count are
\* both k.
C29_NoLostErrorCount ==
    AllReported =>
        /\ components[ReportedName].error_count = MaxReporters
        /\ global_error_count = MaxReporters


\* C30: a retried task keeps its priority but is ordered as newly created:
\* when it is re-enqueued as PENDING, every task of the same priority that
\* is already PENDING comes before it, so it is never the one item the
\* dispatcher's next get returns.
C30_RetriedAfterPending ==
    [][\A t \in TaskIds, u \in TaskIds:
          (/\ RetryWake(t)
           /\ t \in task_queue'
           /\ task'[t].priority = task[t].priority
           /\ u # t
           /\ u \in task_queue
           /\ task[u].priority = task[t].priority)
             => QueueHeads' # {t}]_vars


\* C31: in every reachable state the completed-task history and the
\* failed-task history each hold at most 100 tasks.
C31_HistoryBounded ==
    /\ Len(completed_tasks) <= HistoryLimit
    /\ Len(failed_tasks) <= HistoryLimit


\* C32: the reliability monitor never makes a failed component look
\* healthier: a pass of _check_component_health leaves a FAILED or CRITICAL
\* component in its status or starts its recovery; it never sets it to
\* WARNING.
C32_MonitorKeepsFailed ==
    [][\A c \in Names:
          (RmMonitorCheck /\ components[c].status \in {"critical", "failed"})
             => components'[c].status \in {components[c].status, "recovering"}]_vars


\* a pool thread holds the queue's lock and waits for the manager's lock in
\* the error callback, while the thread in start_listening holds the
\* manager's lock and waits for the queue's lock to submit the retry
LockCycle ==
    \E w \in LockWorkers:
        /\ lock_owner.queue = w
        /\ lock_pc[w] = "error_callback"
        /\ lock_owner.audio = Starter
        /\ lock_pc[Starter] = "init_failed"
        /\ ShouldRetryInit(initialization_attempts)

\* C33: no reachable state has a worker holding the task-queue lock while
\* waiting for the audio manager's lock and another thread holding the audio
\* manager's lock while waiting for the task-queue lock.
C33_NoLockCycle == ~LockCycle


\* C34: a task already recorded COMPLETED (payload returned, task in the
\* completed history) is never afterwards marked FAILED or appended to the
\* failed history by the timeout monitor.
C34_SweepSparesCompleted ==
    [][\A t \in TaskIds:
          (/\ task[t].status = "completed"
           /\ InSeq(completed_tasks, t)
           /\ MonitorHandle)
             => /\ task'[t].status = "completed"
                /\ Len(SelectSeq(failed_tasks', LAMBDA u: u = t))
                      = Len(SelectSeq(failed_tasks, LAMBDA u: u = t))]_vars


\* C35: if all workers are busy and a lower-priority task L has not yet
\* started executing when a higher-priority task H is submitted, then H's
\* payload starts executing before L's: when L's payload starts, H's has
\* started already.
C35_PriorityGovernsStart ==
    [][\A h \in PriorityIds: \A l \in obs[h].outranked:
          (obs[l].execs = 0 /\ obs'[l].execs > 0) => obs[h].execs > 0]_vars


\* C36: no task is lost across shutdown: in a queue that is running (again),
\* every submitted task whose retry delay is not still being waited out is in
\* the pending queue, the active table or a history list.
C36_NoTaskLostAcrossStop ==
    \A t \in Submitted:
        (running /\ ~retry[t]) =>
            \/ t \in task_queue
            \/ InSeq(active_tasks, t)
            \/ InSeq(completed_tasks, t)
            \/ InSeq(failed_tasks, t)


\* the threads that are probing the device inside initialize
Probing == {th \in DevThreads: thread[th].pc \in {"init_probe", "rec_probe"}}

\* C37: at most one initialization (configuration probing of the device) is
\* in progress per resource manager at any time.
C37_OneInitialization == Cardinality(Probing) <= 1


\* C38: the camera's capture loop exits only together with a transition out
\* of CAPTURING: when the loop of a manager that is CAPTURING and has not been
\* told to stop ends, the state is no longer CAPTURING.
C38_LoopExitLeavesCapturing ==
    [][(/\ kind = "camera"
        /\ state = "capturing"
        /\ dev_running
        /\ thread["capture"].pc = "read"
        /\ thread'["capture"].pc = "idle")
           => state' # "capturing"]_vars


\* nothing is under way for task t any more: it waits in no queue, no worker
\* holds it, no retry thread sleeps for it and the monitor has it on no list
Settled(t) ==
    /\ t \in Submitted
    /\ t \notin task_queue
    /\ ~retry[t]
    /\ \A k \in Attempts: fut[t][k] \in {"none", "cancelled", "finished"}
    /\ ~InSeq(monitor.timed_out, t)
    /\ dispatcher.t # t

\* C39: for every task at most one of its two callbacks is ever invoked, and
\* at most once; a task that has ended FAILED (by exhausted retries or by
\* timeout) has had its error callback invoked exactly once, and one that has
\* ended COMPLETED its success callback exactly once.
C39_OneCallbackPerOutcome ==
    \A t \in TaskIds:
        /\ obs[t].cb + obs[t].errcb <= 1
        /\ (Settled(t) /\ task[t].status = "failed")
               => (obs[t].errcb = 1 /\ obs[t].cb = 0)
        /\ (Settled(t) /\ task[t].status = "completed")
               => (obs[t].cb = 1 /\ obs[t].errcb = 0)


\* C40: stop() on a running task queue returns normally, and the stop /
\* pause / start sequence used as the task_queue recovery callback returns
\* True and leaves the queue running.
C40_RestartLeavesRunning ==
    [][(running /\ RestartTaskQueue)
          => /\ ~StopRaises
             /\ running'
             /\ ~shutdown_event']_vars

============================================================================
